---------------------------- MODULE Spec2Model ----------------------------
(***************************************************************************)
(* The in-memory expense handlers of the repository, as one state machine. *)
(*                                                                         *)
(* The repository holds the same handler three times:                      *)
(*   "api"        src/api/expenses.js            (integer ids, the body is *)
(*                read from the request stream by parseBody)               *)
(*   "timestamp"  src/unnamed/part_000, 1-54     (id = Date.now() text)    *)
(*   "third"      src/unnamed/part_000, 56-165   (integer ids, req.body)   *)
(* Each is a module of its own with its own `expenses` array; the variable *)
(* `variant` says which of the three the behaviour is of.                  *)
(*                                                                         *)
(* JavaScript values are records [t, n, s]: t the typeof tag, n the number *)
(* in hundredths (15.75 is n = 1575), s the text of a string (or the name  *)
(* of a non-finite number).                                                *)
(***************************************************************************)
EXTENDS Integers, Sequences, FiniteSets, TLC

VARIABLES
    variant,    \* which handler module is loaded
    expenses,   \* the module-level array `expenses`
    now,        \* the wall clock, milliseconds since the epoch (Date.now())
    inflight,   \* api: POST requests suspended at `await parseBody(req)`
    last        \* the request answered last and the response it was sent

vars == <<variant, expenses, now, inflight, last>>

-----------------------------------------------------------------------------
\* Bounds of the model.

\* successful POSTs per behaviour (the array grows without bound in the code)
MaxPosts == 2
\* days the clock may advance
MaxDay == 1
\* milliseconds the clock may advance within a day
MaxMs == 1
\* api, interleaved: requests suspended at parseBody at the same time
MaxInFlight == 2

-----------------------------------------------------------------------------
\* JavaScript values.

Undefined == [t |-> "undefined", n |-> 0, s |-> ""]
Null      == [t |-> "null",      n |-> 0, s |-> ""]
NaN       == [t |-> "number",    n |-> 0, s |-> "NaN"]
Infinity  == [t |-> "number",    n |-> 1, s |-> "Infinity"]
NegInfinity == [t |-> "number",  n |-> -1, s |-> "Infinity"]

\* the number c/100
Hundredths(c) == [t |-> "number", n |-> c, s |-> ""]
\* the integer k
Num(k) == Hundredths(100 * k)
Str(x) == [t |-> "string", n |-> 0, s |-> x]

IsNaN(v)    == v.t = "number" /\ v.s = "NaN"
IsFinite(v) == v.t = "number" /\ v.s = ""

\* ToBoolean: what `!x` and `x || y` test
Truthy(v) ==
    CASE v.t = "undefined" -> FALSE
      [] v.t = "null"      -> FALSE
      [] v.t = "number"    -> ~IsNaN(v) /\ ~(IsFinite(v) /\ v.n = 0)
      [] v.t = "string"    -> v.s # ""
      [] OTHER             -> TRUE

\* x ?? y in the place of x || y: only undefined and null give way
OrElseNullish(x, y) == IF x.t \in {"undefined", "null"} THEN y ELSE x

\* x || y
OrElse(x, y) == IF Truthy(x) THEN x ELSE y

\* v <= 0 on numbers (false for NaN)
LeqZero(v) ==
    CASE IsNaN(v)    -> FALSE
      [] IsFinite(v) -> v.n <= 0
      [] OTHER       -> v.n < 0

-----------------------------------------------------------------------------
\* parseFloat.

\* The characters of the texts that requests carry as amounts.
Spelling ==
    ("abc"     :> <<"a", "b", "c">>) @@
    (""        :> <<>>) @@
    ("12.5"    :> <<"1", "2", ".", "5">>) @@
    ("-5"      :> <<"-", "5">>) @@
    (" 7"      :> <<" ", "7">>) @@
    ("20abc"   :> <<"2", "0", "a", "b", "c">>) @@
    ("Infinity" :> <<"I", "n", "f", "i", "n", "i", "t", "y">>)

DigitValue ==
    ("0" :> 0) @@ ("1" :> 1) @@ ("2" :> 2) @@ ("3" :> 3) @@ ("4" :> 4) @@
    ("5" :> 5) @@ ("6" :> 6) @@ ("7" :> 7) @@ ("8" :> 8) @@ ("9" :> 9)

IsDigit(c) == c \in DOMAIN DigitValue

\* the first index >= i of cs that holds no blank
RECURSIVE SkipBlanks(_, _)
SkipBlanks(cs, i) ==
    IF i <= Len(cs) /\ cs[i] = " " THEN SkipBlanks(cs, i + 1) ELSE i

\* the first index >= i of cs that holds no digit
RECURSIVE DigitsEnd(_, _)
DigitsEnd(cs, i) ==
    IF i <= Len(cs) /\ IsDigit(cs[i]) THEN DigitsEnd(cs, i + 1) ELSE i

\* the integer written by the digits cs[i .. j-1]
RECURSIVE DigitsValue(_, _, _)
DigitsValue(cs, i, j) ==
    IF j <= i THEN 0
    ELSE 10 * DigitsValue(cs, i, j - 1) + DigitValue[cs[j - 1]]

StartsWith(cs, i, word) ==
    /\ i + Len(word) - 1 <= Len(cs)
    /\ \A k \in 1..Len(word) : cs[i + k - 1] = word[k]

\* parseFloat of a text: blanks, a sign, then "Infinity" or the longest
\* decimal prefix; NaN when there is none.  Fractions keep two digits and
\* exponents are not read (no text of Spelling has more, or any).
ParseText(cs) ==
    LET b    == SkipBlanks(cs, 1)
        neg  == b <= Len(cs) /\ cs[b] = "-"
        i    == IF b <= Len(cs) /\ cs[b] \in {"-", "+"} THEN b + 1 ELSE b
        j    == DigitsEnd(cs, i)
        dot  == j <= Len(cs) /\ cs[j] = "."
        k    == IF dot THEN DigitsEnd(cs, j + 1) ELSE j
        frac == IF ~dot \/ k = j + 1 THEN 0
                ELSE IF k = j + 2 THEN 10 * DigitValue[cs[j + 1]]
                ELSE 10 * DigitValue[cs[j + 1]] + DigitValue[cs[j + 2]]
        mag  == 100 * DigitsValue(cs, i, j) + frac
    IN  IF StartsWith(cs, i, Spelling["Infinity"])
        THEN (IF neg THEN NegInfinity ELSE Infinity)
        ELSE IF j = i /\ (~dot \/ k = j + 1) THEN NaN
        ELSE Hundredths(IF neg THEN 0 - mag ELSE mag)

\* parseFloat(v): v is turned into text first, so a number comes back as
\* it is and undefined, null, true and false give NaN
parseFloat(v) ==
    CASE v.t = "number" -> v
      [] v.t = "string" -> ParseText(Spelling[v.s])
      [] OTHER          -> NaN

-----------------------------------------------------------------------------
\* JSON.

\* JSON.stringify of a value inside an object: a non-finite number is
\* written as null, an undefined property is left out (stays Undefined)
StringifyValue(v) ==
    IF v.t = "number" /\ ~IsFinite(v) THEN Null ELSE v

\* JSON.parse of a number literal: one beyond the double range (1e999) is
\* read as Infinity
ParseLiteral(v) ==
    IF v.t = "number" /\ v.s = "1e999" THEN Infinity ELSE v


\* One expense as the handlers build it; the timestamp variant's records
\* have no category property (Undefined).
Expense(id, amount, description, category, date) ==
    [id |-> id, amount |-> amount, description |-> description,
     category |-> category, date |-> date]

NoExpense == Expense(Undefined, Undefined, Undefined, Undefined, Undefined)

StringifyExpense(e) ==
    [id          |-> StringifyValue(e.id),
     amount      |-> StringifyValue(e.amount),
     description |-> StringifyValue(e.description),
     category    |-> StringifyValue(e.category),
     date        |-> StringifyValue(e.date)]

\* A response payload: t is "object" or "null" for a JavaScript value,
\* "text" for a plain string, "none" when nothing is handed to res.end;
\* keys are the properties an object payload has.
NoBody ==
    [t |-> "none", keys |-> {}, message |-> "", error |-> "",
     missing |-> <<>>, data |-> <<>>, total |-> Undefined,
     expense |-> NoExpense]

NullPayload == [NoBody EXCEPT !.t = "null"]

ErrorPayload(text) ==
    [NoBody EXCEPT !.t = "object", !.keys = {"error"}, !.error = text]

\* JSON.stringify(body): the text handed to res.end
JSONstringify(body) ==
    [body EXCEPT !.data = [i \in DOMAIN body.data |->
                             StringifyExpense(body.data[i])],
                 !.total = StringifyValue(body.total),
                 !.expense = StringifyExpense(body.expense)]

\* [...xs].reverse()
Reverse(xs) == [i \in 1..Len(xs) |-> xs[Len(xs) + 1 - i]]

\* the id of the first record in the place of the largest
MaxIdOfFirst(xs) == xs[1].id.n

\* Math.max(...xs.map(e => e.id)) over integer ids, xs not empty
RECURSIVE MaxId(_)
MaxId(xs) ==
    IF Len(xs) = 1 THEN xs[1].id.n
    ELSE LET m == MaxId(Tail(xs))
         IN  IF xs[1].id.n > m THEN xs[1].id.n ELSE m

-----------------------------------------------------------------------------
\* The clock.

MsPerDay == 24 * 60 * 60 * 1000

DigitText == <<"0", "1", "2", "3", "4", "5", "6", "7", "8", "9">>

\* Number.prototype.toString of a non-negative integer
RECURSIVE IntToString(_)
IntToString(k) ==
    IF k < 10 THEN DigitText[k + 1]
    ELSE IntToString(k \div 10) \o DigitText[(k % 10) + 1]

\* new Date().toISOString().split('T')[0]; the clock starts at the epoch
\* and stays within its first days
ISODate(ms) ==
    LET day == (ms \div MsPerDay) + 1
    IN  "1970-01-" \o (IF day < 10 THEN "0" ELSE "") \o IntToString(day)

-----------------------------------------------------------------------------
\* Requests.

\* A request body as a value: a JSON object with the properties a handler
\* reads (Undefined: the property is not there), or JSON null.
Object(amount, description, category, date, id) ==
    [t |-> "object",
     f |-> [amount |-> amount, description |-> description,
            category |-> category, date |-> date, id |-> id]]

EmptyObject == Object(Undefined, Undefined, Undefined, Undefined, Undefined)
NullBody    == [EmptyObject EXCEPT !.t = "null"]

\* The text of a request body: the JSON text of a value, or text that is
\* no JSON.
Json(v)   == [wellformed |-> TRUE, value |-> v]
Malformed == [wellformed |-> FALSE, value |-> EmptyObject]
NoRequestBody == Json([EmptyObject EXCEPT !.t = "undefined"])

\* a number literal too large for a double
Huge == [t |-> "number", n |-> 0, s |-> "1e999"]

Coffee        == Object(Num(20), Str("Coffee"), Undefined, Undefined, Undefined)
TeaFull       == Object(Str("12.5"), Str("Tea"), Str("Food"), Str("2025-12-05"), Num(1))
CoffeeBlanks  == Object(Num(20), Str("Coffee"), Str(""), Str(""), Undefined)
NoText        == Object(Num(20), Str(""), Undefined, Undefined, Undefined)
NumberAsText  == Object(Str("20abc"), Num(5), Str("Food"), Str("2025-12-05"), Undefined)
Negative      == Object(Num(-5), Str("Coffee"), Undefined, Undefined, Undefined)
Letters       == Object(Str("abc"), Str("Coffee"), Undefined, Undefined, Undefined)
Zero          == Object(Num(0), Str("Coffee"), Undefined, Undefined, Undefined)
TooLarge      == Object(Huge, Str("Coffee"), Undefined, Undefined, Undefined)
OnlyLetters   == Object(Str("abc"), Undefined, Undefined, Undefined, Undefined)
OnlyText      == Object(Undefined, Str("Coffee"), Undefined, Undefined, Undefined)
NegativeFull  == Object(Str("-5"), Str("Tea"), Str("Food"), Str("2025-12-05"), Undefined)
BlanksFull    == Object(Str(" 7"), Str(""), Str(""), Str(""), Undefined)
TooLargeFull  == Object(Str("Infinity"), Str("Tea"), Str("Food"), Str("2025-12-05"), Undefined)

Methods == {"GET", "POST", "OPTIONS", "DELETE"}

\* what the requests of each handler carry
ApiBodies ==
    {Json(b) : b \in {Coffee, TeaFull, CoffeeBlanks, NoText, NumberAsText,
                      Negative, Letters, Zero, TooLarge, OnlyLetters,
                      OnlyText, NullBody}} \cup {Malformed}
TimestampBodies ==
    {Coffee, TeaFull, Negative, Zero, NoText}
ThirdBodies ==
    {Coffee, TeaFull, NumberAsText, NegativeFull, BlanksFull, TooLargeFull,
     OnlyLetters, EmptyObject, NullBody}
AsyncBodies ==
    {Json(Coffee), Json(TeaFull), Json(Letters), Json(NullBody), Malformed}

-----------------------------------------------------------------------------
\* The seeded arrays.

SampleExpenses ==
    << Expense(Num(1), Hundredths(5000), Str("Groceries for the week"),
               Str("Food"), Str("2025-11-28")),
       Expense(Num(2), Hundredths(1575), Str("Monthly streaming subscription"),
               Str("Entertainment"), Str("2025-12-01")) >>

\* `let expenses = [...]` of each module
Seed(v) == IF v = "timestamp" THEN <<>> ELSE SampleExpenses

\* `turn` alternates with every response sent, so that two equal responses
\* in a row are still two responses
NoResponse ==
    [method |-> "", req |-> NoRequestBody, status |-> 0, body |-> NoBody,
     turn |-> 0]

\* what a handler leaves behind: the array and the response it sent, or
\* threw = TRUE when it ended by an exception before sending any
Outcome(exps, res) == [threw |-> FALSE, expenses |-> exps, res |-> res]
Thrown(exps) == [threw |-> TRUE, expenses |-> exps,
                 res |-> [status |-> 0, body |-> NoBody]]

-----------------------------------------------------------------------------
\* src/api/expenses.js

\* res.statusCode = statusCode; res.end(JSON.stringify(body))
sendResponse(statusCode, body) ==
    [status |-> statusCode, body |-> JSONstringify(body)]

\* JSON.parse of a well-formed text
JSONparse(v) == [v EXCEPT !.f = [k \in DOMAIN v.f |-> ParseLiteral(v.f[k])]]

\* resolves with the parsed body, or with {} when JSON.parse throws
parseBody(raw) ==
    IF raw.wellformed THEN JSONparse(raw.value) ELSE EmptyObject

\* requiredFields.filter(field => !(field in newExpense)), newExpense an
\* object
MissingFields(requiredFields, newExpense) ==
    SelectSeq(requiredFields, LAMBDA field : newExpense.f[field] = Undefined)

MissingPayload(missingFields) ==
    [NoBody EXCEPT !.t = "object", !.keys = {"error", "missing"},
                   !.error = "Missing required fields",
                   !.missing = missingFields]

CreatedPayload(message, expenseRecord) ==
    [NoBody EXCEPT !.t = "object", !.keys = {"message", "expense"},
                   !.message = message, !.expense = expenseRecord]

ListPayload(data, total) ==
    [NoBody EXCEPT !.t = "object", !.keys = {"data", "total"},
                   !.data = data, !.total = total]

InvalidAmount == "Invalid amount. Must be a positive number."

\* the same without the `+ 1`
NewIdNotIncremented(exps) ==
    IF Len(exps) > 0 THEN Hundredths(MaxId(exps)) ELSE Num(1)

\* expenses.length > 0 ? Math.max(...expenses.map(e => e.id)) + 1 : 1
NewId(exps) == IF Len(exps) > 0 THEN Hundredths(MaxId(exps) + 100) ELSE Num(1)

\* expenses.reverse() in the place of [...expenses].reverse(): the array
\* itself is reversed
handleGETReversingInPlace(exps) ==
    Outcome(Reverse(exps),
            sendResponse(200, ListPayload(Reverse(exps), Num(Len(exps)))))

\* the array as it is, not reversed
handleGETInsertionOrder(exps) ==
    Outcome(exps, sendResponse(200, ListPayload(exps, Num(Len(exps)))))

handleGET(exps) ==
    Outcome(exps, sendResponse(200, ListPayload(Reverse(exps), Num(Len(exps)))))

\* `field in newExpense` throws a TypeError unless newExpense is an object
handlePOST(exps, clock, body) ==
    IF body.t # "object" THEN Thrown(exps)
    ELSE
    LET newExpense    == body.f
        missingFields == MissingFields(<<"amount", "description">>, body)
        category      == OrElse(newExpense.category, Str("Uncategorized"))
        date          == OrElse(newExpense.date, Str(ISODate(clock)))
        amount        == parseFloat(newExpense.amount)
        expenseRecord == Expense(NewId(exps), amount, newExpense.description,
                                 category, date)
    IN  IF Len(missingFields) > 0
        THEN Outcome(exps, sendResponse(400, MissingPayload(missingFields)))
        ELSE IF IsNaN(amount) \/ LeqZero(amount)
        THEN Outcome(exps, sendResponse(400, ErrorPayload(InvalidAmount)))
        ELSE Outcome(Append(exps, expenseRecord),
                     sendResponse(201, CreatedPayload(
                         "Expense added successfully", expenseRecord)))

MethodNotAllowed(method) == ErrorPayload("Method " \o method \o " Not Allowed")

\* the switch of the handler, inside its try block
Dispatch(exps, clock, method, raw) ==
    CASE method = "GET"  -> handleGET(exps)
      [] method = "POST" -> handlePOST(exps, clock, parseBody(raw))
      [] OTHER           -> Outcome(exps, sendResponse(405, MethodNotAllowed(method)))

\* catch (error): sendResponse(res, 500, ...)
Caught(tried) ==
    IF tried.threw
    THEN Outcome(tried.expenses,
                 sendResponse(500, ErrorPayload("Internal Server Error")))
    ELSE tried

handlerOutcome(exps, clock, method, raw) ==
    IF method = "OPTIONS"
    THEN Outcome(exps, sendResponse(204, NullPayload))
    ELSE Caught(Dispatch(exps, clock, method, raw))

-----------------------------------------------------------------------------
\* src/unnamed/part_000, the first handler (ids from Date.now()).

TimestampListPayload(data) ==
    [NoBody EXCEPT !.t = "object", !.keys = {"message", "data"},
                   !.message = "Data retrieved (In-memory, NOT persistent on Vercel).",
                   !.data = data]

\* res.status(code).json(body)
StatusJson(code, body) == [status |-> code, body |-> JSONstringify(body)]

\* res.status(code).send(text)
StatusSend(code, text) ==
    [status |-> code, body |-> [NoBody EXCEPT !.t = "text", !.message = text]]

\* res.status(code).end()
StatusEnd(code) == [status |-> code, body |-> NoBody]

\* Date.now().toString()
TimestampId(clock) == Str(IntToString(clock))

\* the POST branch; body is req.body, an object
timestampPOST(exps, clock, body) ==
    LET description == body.f.description
        amount      == body.f.amount
        date        == body.f.date
        newExpense  == Expense(TimestampId(clock), parseFloat(amount),
                               description, Undefined,
                               OrElse(date, Str(ISODate(clock))))
    IN  IF ~Truthy(description) \/ ~Truthy(amount)
        THEN Outcome(exps, StatusJson(400, ErrorPayload(
                 "Missing required fields: description and amount.")))
        ELSE Outcome(Append(exps, newExpense),
                     StatusJson(201, CreatedPayload(
                         "Expense added successfully (In-memory, NOT persistent on Vercel).",
                         newExpense)))

moduleExports(exps, clock, method, body) ==
    CASE method = "OPTIONS" -> Outcome(exps, StatusEnd(200))
      [] method = "GET"     -> Outcome(exps, StatusJson(200, TimestampListPayload(exps)))
      [] method = "POST"    -> timestampPOST(exps, clock, body)
      [] OTHER              -> Outcome(exps, StatusSend(405, "Method Not Allowed"))

-----------------------------------------------------------------------------
\* src/unnamed/part_000, the third handler (integer ids, req.body).

\* res.statusCode = statusCode; res.end(JSON.stringify(body))
thirdSendResponse(statusCode, body) ==
    [status |-> statusCode, body |-> JSONstringify(body)]

thirdHandleGET(exps) ==
    Outcome(exps, thirdSendResponse(200, ListPayload(exps, Num(Len(exps)))))

thirdHandlePOST(exps, body) ==
    IF body.t # "object" THEN Thrown(exps)
    ELSE
    LET newExpense    == body.f
        missingFields == MissingFields(
                             <<"amount", "description", "category", "date">>, body)
        amount        == parseFloat(newExpense.amount)
        expenseRecord == Expense(NewId(exps), amount, newExpense.description,
                                 newExpense.category, newExpense.date)
    IN  IF Len(missingFields) > 0
        THEN Outcome(exps, thirdSendResponse(400, MissingPayload(missingFields)))
        ELSE IF IsNaN(amount) \/ LeqZero(amount)
        THEN Outcome(exps, thirdSendResponse(400, ErrorPayload(InvalidAmount)))
        ELSE Outcome(Append(exps, expenseRecord),
                     thirdSendResponse(201, CreatedPayload(
                         "Expense added successfully", expenseRecord)))

\* the switch inside the try block: OPTIONS has no case of its own
thirdDispatch(exps, method, body) ==
    CASE method = "GET"  -> thirdHandleGET(exps)
      [] method = "POST" -> thirdHandlePOST(exps, body)
      [] OTHER           -> Outcome(exps, thirdSendResponse(405, MethodNotAllowed(method)))

thirdHandlerOutcome(exps, method, body) ==
    IF thirdDispatch(exps, method, body).threw
    THEN Outcome(exps, thirdSendResponse(500, ErrorPayload("Internal Server Error")))
    ELSE thirdDispatch(exps, method, body)

-----------------------------------------------------------------------------
\* The state machine.

Init ==
    /\ variant \in {"api", "timestamp", "third"}
    /\ expenses = Seed(variant)
    /\ now = 0
    /\ inflight = <<>>
    /\ last = NoResponse

\* the array holds at most MaxPosts records more than its seed
WithinBounds(exps) == Len(exps) <= Len(Seed(variant)) + MaxPosts

\* one request answered: the array is what the handler left, the response
\* is the one it sent
Answer(method, raw, out) ==
    /\ WithinBounds(out.expenses)
    /\ expenses' = out.expenses
    /\ last' = [method |-> method, req |-> raw,
                status |-> out.res.status, body |-> out.res.body,
                turn |-> 1 - last.turn]

\* api: one request handled from its arrival to its response
handler(method, raw) ==
    /\ variant = "api"
    /\ Answer(method, raw, handlerOutcome(expenses, now, method, raw))
    /\ UNCHANGED <<variant, now, inflight>>

\* timestamp variant: one request
timestampHandler(method, body) ==
    /\ variant = "timestamp"
    /\ Answer(method, Json(body), moduleExports(expenses, now, method, body))
    /\ UNCHANGED <<variant, now, inflight>>

\* third variant: one request
thirdHandler(method, body) ==
    /\ variant = "third"
    /\ Answer(method, Json(body), thirdHandlerOutcome(expenses, method, body))
    /\ UNCHANGED <<variant, now, inflight>>

\* the clock passes midnight
NextDay ==
    /\ now \div MsPerDay < MaxDay
    /\ now' = ((now \div MsPerDay) + 1) * MsPerDay
    /\ UNCHANGED <<variant, expenses, inflight, last>>

\* the clock advances by a millisecond; only the timestamp variant reads
\* the clock finer than the day
Tick ==
    /\ variant = "timestamp"
    /\ now % MsPerDay < MaxMs
    /\ now' = now + 1
    /\ UNCHANGED <<variant, expenses, inflight, last>>

Next ==
    \/ \E raw \in ApiBodies : handler("POST", raw)
    \/ \E method \in Methods \ {"POST"} : handler(method, NoRequestBody)
    \/ \E body \in TimestampBodies : timestampHandler("POST", body)
    \/ \E method \in Methods \ {"POST"} :
           timestampHandler(method, NoRequestBody.value)
    \/ \E body \in ThirdBodies : thirdHandler("POST", body)
    \/ \E method \in Methods \ {"POST"} :
           thirdHandler(method, NoRequestBody.value)
    \/ NextDay
    \/ Tick

Spec == Init /\ [][Next]_vars

-----------------------------------------------------------------------------
\* api with requests interleaved: a POST is suspended at
\* `await parseBody(req)` and resumed, in any order, when its body has
\* been read; everything from there to the response is one step.

InitAsync ==
    /\ variant = "api"
    /\ expenses = Seed(variant)
    /\ now = 0
    /\ inflight = <<>>
    /\ last = NoResponse

Remove(xs, i) == SubSeq(xs, 1, i - 1) \o SubSeq(xs, i + 1, Len(xs))

\* a POST arrives and waits for its body
Arrive(raw) ==
    /\ Len(inflight) < MaxInFlight
    /\ inflight' = Append(inflight, raw)
    /\ UNCHANGED <<variant, expenses, now, last>>

\* the body of the i-th waiting POST has been read: handlePOST runs
Resume(i) ==
    /\ i \in DOMAIN inflight
    /\ Answer("POST", inflight[i],
              handlerOutcome(expenses, now, "POST", inflight[i]))
    /\ inflight' = Remove(inflight, i)
    /\ UNCHANGED <<variant, now>>

NextAsync ==
    \/ \E raw \in AsyncBodies : Arrive(raw)
    \/ \E i \in 1..MaxInFlight : Resume(i)
    \/ \E method \in Methods \ {"POST"} : handler(method, NoRequestBody)
    \/ NextDay

SpecAsync == InitAsync /\ [][NextAsync]_vars

-----------------------------------------------------------------------------
\* What the properties below speak of.

IntegerIds == variant \in {"api", "third"}

DistinctIds(exps) ==
    \A i, j \in DOMAIN exps : i # j => exps[i].id # exps[j].id

\* this step sent a response
Answered == last'.turn # last.turn

\* this step answered a request with the given status
AnsweredWith(status) == Answered /\ last'.status = status

\* exps is xs with one record added at the end
ExtendsByOne(xs, exps) ==
    /\ Len(exps) = Len(xs) + 1
    /\ SubSeq(exps, 1, Len(xs)) = xs

LastOf(exps) == exps[Len(exps)]

\* v is a finite number greater than zero
FinitePositive(v) == v.t = "number" /\ v.s = "" /\ v.n > 0

\* the body a POST request is handled with: what parseBody resolves with
\* for api, req.body for the others
BodyOf(request) ==
    IF variant = "api" THEN parseBody(request) ELSE request.value

-----------------------------------------------------------------------------
\* C1: in the integer-id handlers (api and third) the ids of the
\* collection are pairwise distinct in every state, and every POST answered
\* 201 appends a record whose id is the largest stored id plus one (1 for
\* an empty collection), so larger than every stored id, whatever id the
\* request body carried.
C1_NextIdStep ==
    (IntegerIds /\ AnsweredWith(201)) =>
        /\ Len(expenses') = Len(expenses) + 1
        /\ LET newId == LastOf(expenses').id
           IN  /\ newId.t = "number" /\ newId.s = ""
               /\ \A i \in DOMAIN expenses : expenses[i].id.n < newId.n
               /\ IF expenses = <<>> THEN newId.n = 100
                  ELSE \E i \in DOMAIN expenses :
                           /\ \A j \in DOMAIN expenses :
                                  expenses[j].id.n <= expenses[i].id.n
                           /\ newId.n = expenses[i].id.n + 100

C1_IntegerIdsUnique ==
    /\ [](IntegerIds => DistinctIds(expenses))
    /\ [][C1_NextIdStep]_vars

\* a POST that carried an id of its own (the id of a stored record) was
\* answered 201 and stored under another id
C1_Witness ==
    /\ IntegerIds
    /\ last.method = "POST" /\ last.status = 201
    /\ last.req.value.f.id = Num(1)
    /\ LastOf(expenses).id = Num(4)

-----------------------------------------------------------------------------
\* C2: the collection changes only by append: a request answered 201 adds
\* exactly one record at the end and leaves the earlier records and their
\* order as they were; every other step (a GET, an OPTIONS, a POST answered
\* 400, a method answered 405, a request answered 500, the clock) leaves
\* the collection as it was.
C2_Step ==
    IF AnsweredWith(201)
    THEN ExtendsByOne(expenses, expenses')
    ELSE expenses' = expenses

C2_AppendOnly == [][C2_Step]_vars

\* a request was answered 500 after a record had been appended, and the
\* record is still there
C2_Witness ==
    /\ last.status = 500
    /\ Len(expenses) = Len(Seed(variant)) + 1

-----------------------------------------------------------------------------
\* C3: in every handler variant a POST whose amount does not parse to a
\* finite number greater than zero is answered 400 and stores nothing, so
\* every record of the collection has a finite amount greater than zero.
C3_AmountsFinitePositive ==
    /\ \A i \in DOMAIN expenses : FinitePositive(expenses[i].amount)
    /\ ( /\ last.method = "POST"
         /\ BodyOf(last.req).t = "object"
         /\ ~FinitePositive(parseFloat(BodyOf(last.req).f.amount)) )
       => last.status = 400

-----------------------------------------------------------------------------
\* The api POSTs C4 is about: the body has a description and an amount
\* that parses to a finite number greater than zero.
C4_ValidCreate(request) ==
    LET body == parseBody(request)
    IN  /\ body.t = "object"
        /\ body.f.description # Undefined
        /\ FinitePositive(parseFloat(body.f.amount))

\* what C4 says of such a POST, but for the category and the date: the
\* answer is 201 with the record appended last, and the total a GET
\* reports grows by one
C4_Created ==
    /\ last'.status = 201
    /\ ExtendsByOne(expenses, expenses')
    /\ last'.body.expense = LastOf(expenses')
    /\ handleGET(expenses').res.body.total.n
           = handleGET(expenses).res.body.total.n + 100

\* an optional property that is there but empty: "", 0, null
C4_Empty(v) == v \in {Str(""), Num(0), Null}

\* C4 as stated: in api a POST with a valid amount and a description is
\* answered 201 with exactly the record appended last; its category is the
\* supplied one when one is supplied and "Uncategorized" when absent, its
\* date the supplied one when one is supplied and the current date when
\* absent; the total of the next GET is one more than before.
C4_AsStated ==
    [][ ( /\ variant = "api" /\ Answered /\ last'.method = "POST"
          /\ C4_ValidCreate(last'.req) )
        => LET supplied == parseBody(last'.req).f
               stored   == LastOf(expenses')
           IN  /\ C4_Created
               /\ stored.category =
                      (IF supplied.category # Undefined
                       THEN supplied.category ELSE Str("Uncategorized"))
               /\ stored.date =
                      (IF supplied.date # Undefined
                       THEN supplied.date ELSE Str(ISODate(now))) ]_vars

\* C4 (amended): ... its category is the supplied one when one is
\* supplied and not empty, and "Uncategorized" when absent or empty; its
\* date is the supplied one when one is supplied and not empty, and the
\* current date when absent or empty; the rest as stated.
C4_DefaultsWhenEmpty ==
    [][ ( /\ variant = "api" /\ Answered /\ last'.method = "POST"
          /\ C4_ValidCreate(last'.req) )
        => LET supplied == parseBody(last'.req).f
               stored   == LastOf(expenses')
           IN  /\ C4_Created
               /\ stored.category =
                      (IF supplied.category # Undefined
                          /\ ~C4_Empty(supplied.category)
                       THEN supplied.category ELSE Str("Uncategorized"))
               /\ stored.date =
                      (IF supplied.date # Undefined
                          /\ ~C4_Empty(supplied.date)
                       THEN supplied.date ELSE Str(ISODate(now))) ]_vars

\* a POST that supplied an empty category and an empty date was stored
\* with the defaults, on the second day of the clock
C4_Witness ==
    /\ variant = "api"
    /\ last.method = "POST" /\ last.status = 201
    /\ last.req.value.f.category = Str("")
    /\ LastOf(expenses).category = Str("Uncategorized")
    /\ LastOf(expenses).date = Str("1970-01-02")

-----------------------------------------------------------------------------
\* C5: in api a POST whose body lacks amount or description is answered
\* 400 with a `missing` list that is exactly the required fields absent
\* from the body, before the amount is looked at; a body that cannot be
\* parsed is handled as the empty record and gets the same 400 with both
\* fields listed.
C5_Absent(body, field) == body.t # "object" \/ body.f[field] = Undefined

C5_MissingFieldsReported ==
    ( /\ variant = "api" /\ last.method = "POST"
      /\ \E field \in {"amount", "description"} :
             C5_Absent(parseBody(last.req), field) )
    => /\ last.status = 400
       /\ last.body.error = "Missing required fields"
       /\ {last.body.missing[i] : i \in DOMAIN last.body.missing}
              = {field \in {"amount", "description"} :
                     C5_Absent(parseBody(last.req), field)}

-----------------------------------------------------------------------------
\* C6: in api and third every record of the collection has a non-empty
\* text as its description.
C6_DescriptionsNonEmpty ==
    IntegerIds =>
        \A i \in DOMAIN expenses :
            /\ expenses[i].description.t = "string"
            /\ expenses[i].description.s # ""

-----------------------------------------------------------------------------
\* C7: in the timestamp variant the ids of the collection are pairwise
\* distinct after any sequence of requests handled one after the other,
\* also when the clock does not advance between two of them.
C7_TimestampIdsUnique ==
    variant = "timestamp" => DistinctIds(expenses)

-----------------------------------------------------------------------------
\* C8: a GET is answered 200 with every record of the collection as data
\* and their number as total (the length of data); api lists the records
\* newest first, third in insertion order; on a fresh store these are the
\* seeded records; a GET repeated with no POST in between gets the same
\* response.
C8_Listed ==
    (IntegerIds /\ last.method = "GET") =>
        /\ last.status = 200
        /\ last.body.keys = {"data", "total"}
        /\ last.body.total = Num(Len(expenses))
        /\ Len(last.body.data) = Len(expenses)
        /\ \A i \in DOMAIN expenses :
               last.body.data[IF variant = "api"
                              THEN Len(expenses) + 1 - i ELSE i]
                   = StringifyExpense(expenses[i])
        /\ expenses = SampleExpenses
               => last.body.data = (IF variant = "api"
                                    THEN Reverse(SampleExpenses)
                                    ELSE SampleExpenses)

C8_RepeatedStep ==
    (IntegerIds /\ Answered /\ last.method = "GET" /\ last'.method = "GET")
        => /\ last'.status = last.status
           /\ last'.body = last.body

-----------------------------------------------------------------------------
\* C9: in every handler variant an OPTIONS request is answered with a
\* status in {200, 204} and nothing written as body.
\* A 204 response carries no body: what is handed to res.end with it
\* (api hands it the text "null") is not sent.
C9_BodySent ==
    IF last.status = 204 THEN "none" ELSE last.body.t

C9_OptionsNoBody ==
    last.method = "OPTIONS" =>
        /\ last.status \in {200, 204}
        /\ C9_BodySent = "none"

-----------------------------------------------------------------------------
\* C10: api with several POSTs in flight, resumed in any order after
\* parseBody: every POST answered 201 gets an id that no stored record
\* has, the record it is answered with is the one added at the end, no
\* step removes or changes a stored record, and the ids stay pairwise
\* distinct.
C10_Step ==
    /\ \A i \in DOMAIN expenses :
           i \in DOMAIN expenses' /\ expenses'[i] = expenses[i]
    /\ AnsweredWith(201) =>
           /\ ExtendsByOne(expenses, expenses')
           /\ last'.body.expense = LastOf(expenses')
           /\ \A i \in DOMAIN expenses :
                  expenses[i].id # LastOf(expenses').id

C10_InterleavedPostsKeepIds ==
    /\ []DistinctIds(expenses)
    /\ [][C10_Step]_vars

\* a POST was answered 201 while another was still waiting for its body,
\* and two records have been appended
C10_Witness ==
    /\ last.method = "POST" /\ last.status = 201
    /\ Len(inflight) >= 1
    /\ Len(expenses) = 4

=============================================================================
